---- MODULE Spec2Model ----
(***************************************************************************)
(* A model of streamlit_app.py: the Excel-to-PDF generator.                *)
(*                                                                         *)
(* Text is a sequence of one-character strings.  A cell value is a record  *)
(* [kind, s, m, sgn]: kind "none" is an empty cell (None/NaN), kind "str"  *)
(* is text s, kind "int" is the int m/1000 and kind "num" is a float.  A   *)
(* float is held as m thousandths plus the sign sgn (-1, 0, 1) of what the *)
(* stored binary value differs from m/1000 by (less than half a            *)
(* thousandth): sgn = 0 is a value stored exactly, such as 0.125.  A float *)
(* zero with sgn = -1 also stands for the negative zero.                   *)
(***************************************************************************)
EXTENDS Integers, Sequences, FiniteSets, TLC

VARIABLES
    \* main(): the sheet, and the run's progress
    headers,        \* sheet[1]: the header row's values (line 58)
    brk,            \* sheet.row_breaks.brk: the break ids, ascending
    last_row,       \* the row number of sheet.dimensions' bottom-right cell
    rowpat,         \* which of the sample rows each data row holds
    pc,             \* where main() is: "loaded", "saving", "warning", "success", "error"
    page_ranges,    \* get_page_ranges' result, in insertion order
    page_i,         \* how many entries of page_ranges save_as_pdf has processed
    pdf_files,      \* save_as_pdf's list of written paths
    folder,         \* the files that exist in the output folder
    archive,        \* the entries zip_pdfs wrote
    \* the pure functions, each applied to an input: fn names the function
    fn, arg, res,
    \* save_as_pdf's row loop on one document
    current_y,      \* the loop's cursor (line 106)
    pdf_page,       \* pdf.page_no()
    row_n,          \* the number of data rows drawn so far
    placed          \* the last row drawn: the page and y it started at, its height

vars == <<headers, brk, last_row, rowpat, pc, page_ranges, page_i, pdf_files,
          folder, archive, fn, arg, res, current_y, pdf_page, row_n, placed>>

fnvars == <<fn, arg, res>>

rendervars == <<current_y, pdf_page, row_n, placed>>

mainvars == <<headers, brk, last_row, rowpat, pc, page_ranges, page_i,
              pdf_files, folder, archive>>

(***************************************************************************)
(* Bounds of the model.                                                    *)
(***************************************************************************)
MaxRow == 4         \* sheets have at most this many rows (header included)
MaxCols == 4        \* and at most this many columns

Min(a, b) == IF a < b THEN a ELSE b
Max(a, b) == IF a > b THEN a ELSE b

RECURSIVE SumSeq(_)
SumSeq(s) == IF s = <<>> THEN 0 ELSE Head(s) + SumSeq(Tail(s))

Range(s) == {s[i] : i \in 1..Len(s)}

\* headers.index(x): the first position of x (1-based here)
IndexOf(s, x) == CHOOSE i \in 1..Len(s) : s[i] = x /\ \A k \in 1..(i - 1) : s[k] # x

(***************************************************************************)
(* Cell values.                                                            *)
(***************************************************************************)
NoneV == [kind |-> "none", s |-> <<>>, m |-> 0, sgn |-> 0]
StrV(t) == [kind |-> "str", s |-> t, m |-> 0, sgn |-> 0]
NumV(m, sgn) == [kind |-> "num", s |-> <<>>, m |-> m, sgn |-> sgn]
IntV(n) == [kind |-> "int", s |-> <<>>, m |-> 1000 * n, sgn |-> 0]

IsNegative(v) == v.m < 0 \/ (v.m = 0 /\ v.sgn < 0)
Abs(n) == IF n < 0 THEN -n ELSE n

Digit(d) == <<"0", "1", "2", "3", "4", "5", "6", "7", "8", "9">>[d + 1]

RECURSIVE NatStr(_)
NatStr(n) == IF n < 10 THEN <<Digit(n)>> ELSE NatStr(n \div 10) \o <<Digit(n % 10)>>

(***************************************************************************)
(* sanitize_filename                                                       *)
(***************************************************************************)
IllegalChars == {"<", ">", ":", "\"", "/", "\\", "|", "?", "*"}
NameLimit == 50
DefaultName == <<"d", "e", "f", "a", "u", "l", "t">>

\* re.sub(r'[<>:"/\\|?*]', '', s)
StripIllegal(s) == SelectSeq(s, LAMBDA c : c \notin IllegalChars)

\* s.replace(' ', '_')
ReplaceSpaces(s) == [i \in 1..Len(s) |-> IF s[i] = " " THEN "_" ELSE s[i]]

\* s[:50]
Truncate(s) == SubSeq(s, 1, Min(Len(s), NameLimit))

\* str(name): "None" for an empty cell, the digits of an int, and for a float
\* its shortest decimal form (the thousandths, trailing zeros dropped)
FracStr(f) ==
    IF f % 100 = 0 THEN <<Digit(f \div 100)>>
    ELSE IF f % 10 = 0 THEN <<Digit(f \div 100), Digit((f \div 10) % 10)>>
    ELSE <<Digit(f \div 100), Digit((f \div 10) % 10), Digit(f % 10)>>

PyStr(v) ==
    IF v.kind = "none" THEN <<"N", "o", "n", "e">>
    ELSE IF v.kind = "str" THEN v.s
    ELSE LET sign == IF IsNegative(v) THEN <<"-">> ELSE <<>>
         IN  IF v.kind = "int"
             THEN sign \o NatStr(Abs(v.m) \div 1000)
             ELSE sign \o NatStr(Abs(v.m) \div 1000) \o <<".">> \o FracStr(Abs(v.m) % 1000)

\* sanitize_filename with a fault: neither cut to the limit nor defaulted
sanitize_filename_raw(name) == ReplaceSpaces(StripIllegal(PyStr(name)))

sanitize_filename(name) ==
    LET cut == Truncate(ReplaceSpaces(StripIllegal(PyStr(name))))
    IN  IF cut = <<>> THEN DefaultName ELSE cut

(***************************************************************************)
(* get_page_ranges: the pages as a sequence of [id, start_row, end_row]    *)
(* (the column span A..last_col is the same for every page).               *)
(***************************************************************************)
get_page_ranges(breaks, lastRow) ==
    LET horizontal_breaks == <<0>> \o breaks
    IN  [idx \in 1..Len(horizontal_breaks) |->
            [id |-> idx,
             start_row |-> IF idx = 1 THEN 2 ELSE horizontal_breaks[idx] + 1,
             end_row |-> IF idx + 1 <= Len(horizontal_breaks)
                         THEN horizontal_breaks[idx + 1] ELSE lastRow]]

(***************************************************************************)
(* The sheet.  Row 1 is the header row; data row r holds one of two sample *)
(* rows, rowpat[r]; a cell below the sheet's last row reads as None.       *)
(***************************************************************************)
H_ID == <<"I", "D">>
H_Brand == <<"B", "r", "a", "n", "d", "S", "u", "p", "p", "l", "i", "e", "r",
             "D", "e", "s", "c", "r", "i", "p", "t", "i", "o", "n">>
H_CCN == <<"C", "C", "N">>
H_Rate == <<"R", "a", "t", "e">>
HeaderNames == {H_ID, H_Brand, H_CCN, H_Rate}

SampleCell(h, p) ==
    IF h = H_ID THEN IntV(p)
    ELSE IF h = H_Brand THEN (IF p = 1 THEN StrV(<<"A", " ", "B">>) ELSE StrV(<<"A", "/", "B">>))
    ELSE IF h = H_CCN THEN (IF p = 1 THEN StrV(<<"C", "7">>) ELSE StrV(<<"C", "?", "7">>))
    ELSE NumV(2500, 0)

\* cell.value at (row r, 1-based column c)
CellAt(hs, pat, lastRow, r, c) ==
    IF r > lastRow THEN NoneV ELSE SampleCell(hs[c], pat[r])

\* the sheets: header rows without a repeated name, ascending break ids
HeaderRows ==
    {h \in UNION {[1..n -> HeaderNames] : n \in 2..MaxCols} :
        \A i, j \in 1..Len(h) : h[i] = h[j] => i = j}

RECURSIVE SortedSeq(_)
SortedSeq(S) ==
    IF S = {} THEN <<>>
    ELSE LET lo == CHOOSE x \in S : \A y \in S : x <= y
         IN  <<lo>> \o SortedSeq(S \ {lo})

BreakLists == {SortedSeq(S) : S \in SUBSET (1..MaxRow)}

(***************************************************************************)
(* save_as_pdf: the file name of one logical page.                         *)
(***************************************************************************)
PageId(idx) == <<"P", "a", "g", "e">> \o NatStr(idx)
DotPdf == <<".", "p", "d", "f">>

\* sheet[cell_range] as a DataFrame: the row numbers it holds
DataRows(rg) == IF rg.start_row <= rg.end_row THEN rg.start_row .. rg.end_row ELSE {}

brand_idx == 2      \* 0-based, as in the code

\* ccn_idx: the 0-based index of 'CCN', or -1 for None
ccn_idx(hs) == IF H_CCN \in Range(hs) THEN IndexOf(hs, H_CCN) - 1 ELSE -1

\* data.iloc[0, 2] raises IndexError on a sheet of fewer than 3 columns
NameRaises(hs, rg) ==
    /\ DataRows(rg) # {}
    /\ ccn_idx(hs) # -1
    /\ brand_idx + 1 > Len(hs)

file_name(hs, pat, lastRow, rg) ==
    IF DataRows(rg) = {}
    THEN PageId(rg.id) \o DotPdf
    ELSE IF ccn_idx(hs) # -1
         THEN sanitize_filename(CellAt(hs, pat, lastRow, rg.start_row, brand_idx + 1))
              \o <<"_">>
              \o sanitize_filename(CellAt(hs, pat, lastRow, rg.start_row, ccn_idx(hs) + 1))
              \o DotPdf
         ELSE PageId(rg.id) \o DotPdf

(***************************************************************************)
(* main()                                                                  *)
(***************************************************************************)
NoFn == /\ fn = "none"
        /\ arg = <<>>
        /\ res = <<>>

NoMain ==
    /\ headers = <<>>
    /\ brk = <<>>
    /\ last_row = 1
    /\ rowpat = <<>>
    /\ pc = "idle"
    /\ page_ranges = <<>>
    /\ page_i = 0
    /\ pdf_files = <<>>
    /\ folder = {}
    /\ archive = <<>>

NoRender ==
    /\ current_y = 0
    /\ pdf_page = 0
    /\ row_n = 0
    /\ placed = <<>>

Init ==
    /\ headers \in HeaderRows
    /\ brk \in BreakLists
    /\ last_row \in 2..MaxRow          \* at least one data row
    /\ rowpat \in [2..MaxRow -> 1..2]
    /\ pc = "loaded"
    /\ page_ranges = <<>>
    /\ page_i = 0
    /\ pdf_files = <<>>
    /\ folder = {}
    /\ archive = <<>>
    /\ NoFn
    /\ NoRender

\* lines 193-197: resolve the page ranges; an empty result ends in the warning
Resolve ==
    /\ pc = "loaded"
    /\ page_ranges' = get_page_ranges(brk, last_row)
    /\ pc' = IF page_ranges' = <<>> THEN "warning" ELSE "saving"
    /\ UNCHANGED <<headers, brk, last_row, rowpat, page_i, pdf_files, folder, archive>>
    /\ UNCHANGED <<fnvars, rendervars>>

\* lines 61-171: one iteration of save_as_pdf's loop over page_ranges.  The
\* document is written under file_name (replacing a file of that name) and
\* its path appended; an exception ends the run in main's except branch.
\* Drawing the document (lines 81-166, SpecRender) changes neither the name
\* nor the list of paths, and the sample cells are values it formats.
SavePage ==
    /\ pc = "saving"
    /\ page_i < Len(page_ranges)
    /\ LET rg == page_ranges[page_i + 1]
       IN  IF NameRaises(headers, rg)
           THEN /\ pc' = "error"
                /\ UNCHANGED <<page_i, pdf_files, folder>>
           ELSE LET name == file_name(headers, rowpat, last_row, rg)
                IN  /\ folder' = folder \cup {name}
                    /\ pdf_files' = Append(pdf_files, name)
                    /\ page_i' = page_i + 1
                    /\ pc' = pc
    /\ UNCHANGED <<headers, brk, last_row, rowpat, page_ranges, archive>>
    /\ UNCHANGED <<fnvars, rendervars>>

\* lines 200-210: zip_pdfs writes one entry per listed path, then success
ZipPdfs ==
    /\ pc = "saving"
    /\ page_i = Len(page_ranges)
    /\ archive' = pdf_files
    /\ pc' = "success"
    /\ UNCHANGED <<headers, brk, last_row, rowpat, page_ranges, page_i, pdf_files, folder>>
    /\ UNCHANGED <<fnvars, rendervars>>

Next == Resolve \/ SavePage \/ ZipPdfs

Spec == Init /\ [][Next]_vars

(***************************************************************************)
(* Claims about main(), get_page_ranges and the file names, under Spec.    *)
(***************************************************************************)
Covers(rg, r) == rg.start_row <= r /\ r <= rg.end_row

\* C1: for every non-empty set of break markers and every last row, the ranges
\* get_page_ranges returns partition the data rows: the first starts at row 2,
\* each later one starts at the previous end row + 1, every range has
\* start_row <= end_row, the last ends at the sheet's last row, and every row
\* of 2..last_row lies in exactly one range.
C1_RangesPartitionRows ==
    (pc # "loaded" /\ brk # <<>>) =>
        /\ page_ranges # <<>>
        /\ page_ranges[1].start_row = 2
        /\ \A i \in 2..Len(page_ranges) :
              page_ranges[i].start_row = page_ranges[i - 1].end_row + 1
        /\ \A i \in 1..Len(page_ranges) :
              page_ranges[i].start_row <= page_ranges[i].end_row
        /\ page_ranges[Len(page_ranges)].end_row = last_row
        /\ \A r \in 2..last_row :
              Cardinality({i \in 1..Len(page_ranges) : Covers(page_ranges[i], r)}) = 1

\* C2: with no break markers the resolution yields zero logical pages, and the
\* run ends in the warning: no document is written, no archive built, no error.
C2_NoBreaksWarns ==
    (pc # "loaded" /\ brk = <<>>) =>
        /\ page_ranges = <<>>
        /\ pc = "warning"
        /\ pdf_files = <<>>
        /\ folder = {}
        /\ archive = <<>>

\* C5: a page with at least one data row is named
\* sanitize(brand value)_sanitize(CCN value).pdf from its first row when the
\* headers hold both a brand/description column and a CCN column, and
\* {pageId}.pdf when either is absent.
ExpectedName(hs, pat, lastRow, rg) ==
    IF H_Brand \in Range(hs) /\ H_CCN \in Range(hs)
    THEN sanitize_filename(CellAt(hs, pat, lastRow, rg.start_row, IndexOf(hs, H_Brand)))
         \o <<"_">>
         \o sanitize_filename(CellAt(hs, pat, lastRow, rg.start_row, IndexOf(hs, H_CCN)))
         \o DotPdf
    ELSE PageId(rg.id) \o DotPdf

C5_NameFromBrandAndCcn ==
    \A i \in 1..Len(pdf_files) :
        DataRows(page_ranges[i]) # {} =>
            pdf_files[i] = ExpectedName(headers, rowpat, last_row, page_ranges[i])

\* C6: once save_as_pdf has processed all N pages, N distinct documents exist
\* in the output folder and the path list, and the archive built from it,
\* name each exactly once.
C6_OneDocumentPerPage ==
    pc = "success" =>
        /\ Cardinality(folder) = Len(page_ranges)
        /\ Len(archive) = Len(page_ranges)
        /\ \A i, j \in 1..Len(archive) : archive[i] = archive[j] => i = j

(***************************************************************************)
(* sanitize_filename applied to a name: SpecSanitize.  The names are a     *)
(* short arbitrary prefix, a run of one legal character, and a short       *)
(* arbitrary suffix, so that names reach past the limit of 50; and None.   *)
(***************************************************************************)
MaxAffix == 2       \* the prefix has at most this many characters
MaxFill == 52       \* the run has at most this many

NameChars == IllegalChars \cup {"a", " "}

Affixes(n) == UNION {[1..k -> NameChars] : k \in 0..n}

Fill(n) == [i \in 1..n |-> "a"]

SanitizeInputs ==
    {NoneV, IntV(12), IntV(-3), NumV(2500, 0)} \cup
    {StrV(pre \o Fill(n) \o suf) :
        pre \in Affixes(MaxAffix), n \in {0} \cup ((NameLimit - 3)..MaxFill),
        suf \in Affixes(1)}

InitSanitize ==
    /\ fn = "sanitize"
    /\ arg \in SanitizeInputs
    /\ res = <<>>
    /\ NoMain
    /\ NoRender

CallSanitize ==
    /\ fn = "sanitize"
    /\ res' = sanitize_filename(arg)
    /\ fn' = "sanitized"
    /\ UNCHANGED <<arg, mainvars, rendervars>>

NextSanitize == CallSanitize

SpecSanitize == InitSanitize /\ [][NextSanitize]_vars

\* C8: for every input, sanitize_filename returns a string with none of the
\* characters < > : " / \ | ? *, of length at most 50, and not empty.
C8_SanitizedNameIsSafe ==
    fn = "sanitized" =>
        /\ \A i \in 1..Len(res) : res[i] \notin {"<", ">", ":", "\"", "/", "\\", "|", "?", "*"}
        /\ Len(res) <= 50
        /\ Len(res) >= 1

\* a name longer than the limit that starts with an illegal character and a
\* space was stripped, underscored and cut to 50
C8_Witness ==
    /\ fn = "sanitized"
    /\ arg.kind = "str"
    /\ Len(arg.s) > 50
    /\ arg.s[1] \in IllegalChars
    /\ arg.s[2] = " "
    /\ Len(res) = 50
    /\ res[1] = "_"

(***************************************************************************)
(* The drawing surface's pdf.get_string_width: the sum of the characters'  *)
(* widths.  The widths stand in whole units for the font's metrics.        *)
(***************************************************************************)
CharWidth(c) ==
    IF c \in {"i", "l", "t", " ", ".", "I", "_"} THEN 1
    ELSE IF c \in {"W", "M", "m"} THEN 3
    ELSE 2

RECURSIVE get_string_width(_)
get_string_width(s) ==
    IF s = <<>> THEN 0 ELSE CharWidth(Head(s)) + get_string_width(Tail(s))

(***************************************************************************)
(* calculate_column_widths.  A width is the fraction num/den, so that the  *)
(* scaling by max_width / total_width is exact.                            *)
(***************************************************************************)
MaxWidth == 500         \* max_width's default
Padding == 6
DetailsFloor == 50
ColumnCap == 30

H_Details == <<"D", "e", "t", "a", "i", "l", "s">>
H_Contract == <<"C", "o", "n", "t", "r", "a", "c", "t">>
H_ContractRef == <<"C", "o", "n", "t", "r", "a", "c", "t", "_", "R", "e", "f", "e",
                   "r", "e", "n", "c", "e", "_", "N", "u", "m", "b", "e", "r">>

\* ColumnWidth with a fault: the padding is left out
ColumnWidth_nopad(header) ==
    LET width == get_string_width(header)
    IN  IF header = H_Details THEN Max(width, DetailsFloor) ELSE Min(width, ColumnCap)

\* lines 41-46: one column's width before scaling
ColumnWidth(header) ==
    LET width == get_string_width(header) + Padding
    IN  IF header = H_Details THEN Max(width, DetailsFloor) ELSE Min(width, ColumnCap)

\* lines 39-47: col_widths before scaling
UnscaledWidths(hs) == [j \in 1..Len(hs) |-> ColumnWidth(hs[j])]

\* calculate_column_widths with a fault: the widths are never scaled down
calculate_column_widths_unscaled(hs, max_width) ==
    [j \in 1..Len(hs) |-> [num |-> UnscaledWidths(hs)[j], den |-> 1]]

calculate_column_widths(hs, max_width) ==
    LET col_widths == UnscaledWidths(hs)
        total_width == SumSeq(col_widths)
    IN  IF total_width > max_width
        THEN [j \in 1..Len(hs) |-> [num |-> col_widths[j] * max_width, den |-> total_width]]
        ELSE [j \in 1..Len(hs) |-> [num |-> col_widths[j], den |-> 1]]

(***************************************************************************)
(* calculate_column_widths applied to a header row: SpecWidths.  The rows  *)
(* are a short arbitrary list of headers followed by a run of one long     *)
(* header, so that rows reach past the width budget.                       *)
(***************************************************************************)
MaxHead == 2        \* the arbitrary list has at most this many headers
MaxRun == 17        \* the run has at most this many

WidthHeaders == {H_Details, H_ID, H_Rate, H_ContractRef}

WidthInputs ==
    {hd \o [i \in 1..n |-> H_ContractRef] :
        hd \in UNION {[1..k -> WidthHeaders] : k \in 0..MaxHead}, n \in 0..MaxRun}

InitWidths ==
    /\ fn = "widths"
    /\ arg \in WidthInputs
    /\ res = <<>>
    /\ NoMain
    /\ NoRender

\* line 85: save_as_pdf calls it with the default max_width
CallWidths ==
    /\ fn = "widths"
    /\ res' = calculate_column_widths(arg, MaxWidth)
    /\ fn' = "widths_done"
    /\ UNCHANGED <<arg, mainvars, rendervars>>

NextWidths == CallWidths

SpecWidths == InitWidths /\ [][NextWidths]_vars

\* the widths in res over their common denominator
ResDen == IF res = <<>> THEN 1 ELSE res[1].den
ResNumSum == SumSeq([j \in 1..Len(res) |-> res[j].num])
ArgTotal == SumSeq(UnscaledWidths(arg))

SameRatio ==
    ArgTotal > MaxWidth =>
        /\ \A j \in 1..Len(res) :
              res[j].num * ArgTotal = UnscaledWidths(arg)[j] * MaxWidth * res[j].den
        /\ \A i, j \in 1..Len(res) :
              res[i].num * UnscaledWidths(arg)[j] = res[j].num * UnscaledWidths(arg)[i]

\* C3 as stated: the widths sum to at most max_width; the sum equals max_width
\* only when the unconstrained sum was strictly greater than max_width; and
\* then every width is the unconstrained width times max_width/total.
C3_Original ==
    fn = "widths_done" =>
        /\ \A j \in 1..Len(res) : res[j].den = ResDen
        /\ ResNumSum <= MaxWidth * ResDen
        /\ (ResNumSum = MaxWidth * ResDen => ArgTotal > MaxWidth)
        /\ SameRatio

\* C3 as amended: the widths sum to at most max_width; the sum equals
\* max_width only when the unconstrained sum was at least max_width; when it
\* was strictly greater every width is the unconstrained width times
\* max_width/total, so the proportions between columns are unchanged.
C3_WidthsWithinBudget ==
    fn = "widths_done" =>
        /\ \A j \in 1..Len(res) : res[j].den = ResDen
        /\ ResNumSum <= MaxWidth * ResDen
        /\ (ResNumSum = MaxWidth * ResDen => ArgTotal >= MaxWidth)
        /\ SameRatio

\* a row whose unconstrained widths exceed the budget was scaled to exactly it
C3_Witness ==
    /\ fn = "widths_done"
    /\ ArgTotal > MaxWidth
    /\ ResNumSum = MaxWidth * ResDen
    /\ \E j \in 1..Len(res) : arg[j] = H_Details

\* C10 as stated: every column's width is at least the measured width of its
\* header text plus the fixed padding.
C10_Original ==
    fn = "widths_done" =>
        \A j \in 1..Len(res) :
            res[j].num >= (get_string_width(arg[j]) + 6) * res[j].den

\* C10 as amended: when the widths are not scaled down, every column whose
\* header is "Details", or whose header width plus the padding is at most the
\* per-column cap of 30, is at least as wide as its header text plus the padding.
C10_HeaderFitsUnlessCappedOrScaled ==
    fn = "widths_done" =>
        \A j \in 1..Len(res) :
            (/\ ArgTotal <= MaxWidth
             /\ (arg[j] = H_Details \/ get_string_width(arg[j]) + 6 <= 30))
            => res[j].num >= (get_string_width(arg[j]) + 6) * res[j].den

\* an unscaled row with a Details column, a short header and a capped one
C10_Witness ==
    /\ fn = "widths_done"
    /\ ArgTotal <= MaxWidth
    /\ \E i, j, k \in 1..Len(res) :
          /\ arg[i] = H_Details /\ res[i].num = 50 * res[i].den
          /\ arg[j] = H_Rate /\ res[j].num = (get_string_width(H_Rate) + 6) * res[j].den
          /\ arg[k] = H_ContractRef /\ res[k].num = 30 * res[k].den

(***************************************************************************)
(* save_as_pdf's text wrapper (lines 147-157).                             *)
(***************************************************************************)
\* content.split(' ')
RECURSIVE SplitOn(_, _)
SplitOn(s, cur) ==
    IF s = <<>> THEN <<cur>>
    ELSE IF Head(s) = " " THEN <<cur>> \o SplitOn(Tail(s), <<>>)
    ELSE SplitOn(Tail(s), Append(cur, Head(s)))

Split(s) == SplitOn(s, <<>>)

\* line.strip()
RECURSIVE LStrip(_)
LStrip(s) == IF s # <<>> /\ Head(s) = " " THEN LStrip(Tail(s)) ELSE s

RECURSIVE RStrip(_)
RStrip(s) ==
    IF s # <<>> /\ s[Len(s)] = " " THEN RStrip(SubSeq(s, 1, Len(s) - 1)) ELSE s

Strip(s) == RStrip(LStrip(s))

\* pdf.get_string_width(t) < col_widths[j], the width being a fraction
Fits(t, colw) == get_string_width(t) * colw.den < colw.num

\* WrapLoop with a fault: the word alone is measured, not the line it extends
RECURSIVE WrapLoop_wordonly(_, _, _, _)
WrapLoop_wordonly(words, current_line, lines, colw) ==
    IF words = <<>> THEN Append(lines, Strip(current_line))
    ELSE IF Fits(Head(words), colw)
         THEN WrapLoop_wordonly(Tail(words), current_line \o Head(words) \o <<" ">>,
                                lines, colw)
         ELSE WrapLoop_wordonly(Tail(words), Head(words) \o <<" ">>,
                                Append(lines, Strip(current_line)), colw)

\* lines 150-156: the loop over the words, and the last line
RECURSIVE WrapLoop(_, _, _, _)
WrapLoop(words, current_line, lines, colw) ==
    IF words = <<>> THEN Append(lines, Strip(current_line))
    ELSE IF Fits(current_line \o Head(words), colw)
         THEN WrapLoop(Tail(words), current_line \o Head(words) \o <<" ">>, lines, colw)
         ELSE WrapLoop(Tail(words), Head(words) \o <<" ">>,
                       Append(lines, Strip(current_line)), colw)

wrap(content, colw) == WrapLoop(Split(content), <<>>, <<>>, colw)

(***************************************************************************)
(* The wrapper applied to a cell's text and a column width: SpecWrap.      *)
(***************************************************************************)
MaxContent == 6     \* the text has at most this many characters
MaxColW == 9        \* column widths are k or k/2 for k up to this

WrapChars == {"i", "W", " "}

WrapInputs ==
    [content : UNION {[1..n -> WrapChars] : n \in 0..MaxContent},
     colw : [num : 6..MaxColW, den : {1, 2}]]

InitWrap ==
    /\ fn = "wrap"
    /\ arg \in WrapInputs
    /\ res = <<>>
    /\ NoMain
    /\ NoRender

CallWrap ==
    /\ fn = "wrap"
    /\ res' = wrap(arg.content, arg.colw)
    /\ fn' = "wrapped"
    /\ UNCHANGED <<arg, mainvars, rendervars>>

NextWrap == CallWrap

SpecWrap == InitWrap /\ [][NextWrap]_vars

TooWide(line, colw) == get_string_width(line) * colw.den > colw.num

\* C4: the wrapper returns at least one line (exactly one empty line for empty
\* input), and every line is at most as wide as the column unless it is a
\* single unsplit word that is itself wider than the column.
C4_WrappedLinesFit ==
    fn = "wrapped" =>
        /\ Len(res) >= 1
        /\ (arg.content = <<>> => res = << <<>> >>)
        /\ \A k \in 1..Len(res) :
              TooWide(res[k], arg.colw) => \A i \in 1..Len(res[k]) : res[k][i] # " "

\* a text of several words was wrapped into a line of two words that fits and a
\* later line holding one word wider than the column
C4_Witness ==
    /\ fn = "wrapped"
    /\ \E k, n \in 1..Len(res) :
          /\ k < n
          /\ \E i \in 1..Len(res[k]) : res[k][i] = " "
          /\ ~TooWide(res[k], arg.colw)
          /\ TooWide(res[n], arg.colw)

(***************************************************************************)
(* save_as_pdf's cell formatting (lines 126-138).                          *)
(***************************************************************************)
H_RetroRate == <<"R", "e", "t", "r", "o", "R", "a", "t", "e">>
H_Volume == <<"V", "o", "l", "u", "m", "e">>
H_RetroValue == <<"R", "e", "t", "r", "o", "_", "V", "a", "l", "u", "e">>
H_RetroRateSp == <<"R", "e", "t", "r", "o", " ", "R", "a", "t", "e">>
H_ItemName == <<"I", "t", "e", "m", " ", "N", "a", "m", "e">>

IntegerHeaders == {H_Contract, H_ContractRef}
CurrencyHeaders == {H_RetroRate, H_Rate, H_Volume, H_RetroValue, H_RetroRateSp}
Pound == "£"

\* the hundredth nearest to the float v: a tie is a value stored exactly at
\* the half, and goes to the even hundredth
NearestHundredth(v) ==
    LET q == v.m \div 10
        r == v.m % 10
    IN  IF r < 5 THEN q
        ELSE IF r > 5 THEN q + 1
        ELSE IF v.sgn > 0 THEN q + 1
        ELSE IF v.sgn < 0 THEN q
        ELSE IF q % 2 = 0 THEN q ELSE q + 1

\* int(item): towards zero
PyInt(v) ==
    IF v.kind = "int" THEN v
    ELSE LET below == IF v.sgn < 0 THEN v.m - 1 ELSE v.m      \* floor of the value
             above == IF v.sgn > 0 THEN v.m + 1 ELSE v.m      \* ceiling, thousandths
         IN  IF v.m > 0 \/ (v.m = 0 /\ v.sgn >= 0)
             THEN IntV(below \div 1000)
             ELSE IntV(-((-above) \div 1000))

\* round(item, 2): an int is returned as it is
PyRound2(v) ==
    IF v.kind = "int" THEN v
    ELSE LET h == NearestHundredth(v)
         IN  NumV(10 * h, IF h = 0 /\ IsNegative(v) THEN -1 ELSE 0)

\* f"{item:.2f}"
Format2f(v) ==
    LET h == IF v.kind = "int" THEN v.m \div 10 ELSE NearestHundredth(v)
    IN  (IF IsNegative(v) THEN <<"-">> ELSE <<>>)
        \o NatStr(Abs(h) \div 100) \o <<".">>
        \o <<Digit((Abs(h) \div 10) % 10), Digit(Abs(h) % 10)>>

IsNum(v) == v.kind \in {"int", "num"}
IsNa(v) == v.kind = "none"

Ok(text) == [ok |-> TRUE, text |-> text]
Raised == [ok |-> FALSE, text |-> <<>>]

\* lines 135-138, given the item lines 126-133 leave
Content(item, header) ==
    IF header \in CurrencyHeaders /\ ~IsNa(item)
    THEN (IF IsNum(item) THEN Ok(<<Pound>> \o Format2f(item)) ELSE Raised)
    ELSE (IF IsNa(item) THEN Ok(<<>>) ELSE Ok(PyStr(item)))

\* Rounded with a fault: the symbol is put before the rounded value's plain
\* string form (the earlier version kept in the comments of lines 141-145)
Rounded_plain(item, header) ==
    LET rounded == IF IsNum(item) THEN PyRound2(item) ELSE item
    IN  IF header \in CurrencyHeaders /\ ~IsNa(item)
        THEN (IF IsNum(item) THEN Ok(<<Pound>> \o PyStr(rounded)) ELSE Raised)
        ELSE (IF IsNa(item) THEN Ok(<<>>) ELSE Ok(PyStr(item)))

\* lines 132-138: round a number, then the content
Rounded(item, header) ==
    Content(IF IsNum(item) THEN PyRound2(item) ELSE item, header)

\* lines 126-138: the text of a cell; int() of text raises
format_cell(item, header) ==
    IF header \in IntegerHeaders
    THEN (IF IsNa(item) THEN Rounded(StrV(<<>>), header)
          ELSE IF IsNum(item) THEN Rounded(PyInt(item), header)
          ELSE Raised)
    ELSE Rounded(item, header)

(***************************************************************************)
(* The formatting applied to a value and a header: SpecFormat.             *)
(***************************************************************************)
MaxMilli == 130     \* floats range over -MaxMilli..MaxMilli thousandths

Exact(m) == m % 125 = 0     \* m/1000 is a binary fraction

FormatValues ==
    {NoneV, StrV(<<"a", "b">>), IntV(-1), IntV(0), IntV(3), IntV(12)}
    \cup {NumV(m, sgn) : m \in (-MaxMilli..MaxMilli) \cup {2675, 12345}, sgn \in {-1, 1}}
    \cup {NumV(m, 0) : m \in {k \in -MaxMilli..MaxMilli : Exact(k)} \cup {12375}}

FormatHeaders == CurrencyHeaders \cup IntegerHeaders \cup {H_ID, H_ItemName}

InitFormat ==
    /\ fn = "format"
    /\ arg \in [item : FormatValues, header : FormatHeaders]
    /\ res = <<>>
    /\ NoMain
    /\ NoRender

CallFormat ==
    /\ fn = "format"
    /\ res' = format_cell(arg.item, arg.header)
    /\ fn' = "formatted"
    /\ UNCHANGED <<arg, mainvars, rendervars>>

NextFormat == CallFormat

SpecFormat == InitFormat /\ [][NextFormat]_vars

\* reading a printed amount back: the digits before and after the point
DigitChars == {"0", "1", "2", "3", "4", "5", "6", "7", "8", "9"}
DigitVal(c) == CHOOSE d \in 0..9 : Digit(d) = c

RECURSIVE ReadNat(_)
ReadNat(s) == IF s = <<>> THEN 0 ELSE 10 * ReadNat(SubSeq(s, 1, Len(s) - 1)) + DigitVal(s[Len(s)])

\* t is digits, a point and exactly two digits, with an optional minus sign
IsAmount(t) ==
    LET u == IF t # <<>> /\ Head(t) = "-" THEN Tail(t) ELSE t
    IN  /\ Len(u) >= 4
        /\ u[Len(u) - 2] = "."
        /\ \A i \in 1..Len(u) : i # Len(u) - 2 => u[i] \in DigitChars

\* the hundredths t prints
ReadAmount(t) ==
    LET neg == Head(t) = "-"
        u == IF neg THEN Tail(t) ELSE t
        h == 100 * ReadNat(SubSeq(u, 1, Len(u) - 3)) + ReadNat(SubSeq(u, Len(u) - 1, Len(u)))
    IN  IF neg THEN -h ELSE h

\* h hundredths is the value v rounded to 2 places: no hundredth is nearer
IsRounding(v, h) ==
    LET d == 10 * h - v.m
    IN  \/ -5 < d /\ d < 5
        \/ d = 5 /\ v.sgn >= 0
        \/ d = -5 /\ v.sgn <= 0

\* C7: in a currency column a numeric value is shown as the currency symbol
\* followed by the value rounded to 2 decimal places, printed with exactly 2
\* decimal digits; a null value is shown as the empty string, without symbol.
C7_CurrencyTwoDecimals ==
    (fn = "formatted"
     /\ arg.header \in {H_RetroRate, H_Rate, H_Volume, H_RetroValue, H_RetroRateSp}) =>
        /\ arg.item.kind \in {"int", "num"} =>
              /\ res.ok
              /\ res.text # <<>>
              /\ Head(res.text) = "£"
              /\ IsAmount(Tail(res.text))
              /\ IsRounding(arg.item, ReadAmount(Tail(res.text)))
        /\ arg.item.kind = "none" => (res.ok /\ res.text = <<>>)

\* 12.345, stored a little above it, was shown in column Rate as £12.35
C7_Witness ==
    /\ fn = "formatted"
    /\ arg = [item |-> NumV(12345, 1), header |-> H_Rate]
    /\ res = Ok(<<"£", "1", "2", ".", "3", "5">>)

(***************************************************************************)
(* save_as_pdf's row loop on one document (lines 105-166): SpecRender.     *)
(* A data row is given by the number of lines each of its cells is drawn   *)
(* in.  The drawing surface is FPDF(orientation='L') in millimetres: page  *)
(* height 210, top margin 10, bottom margin 20; its multi_cell starts a    *)
(* new page by itself before a line that would pass the bottom margin.     *)
(***************************************************************************)
PageH == 210
TMargin == 10
BMargin == 20
row_height == 4

MaxLines == 3           \* a cell is drawn in at most this many lines
RenderCols == 2         \* the rows have this many cells
MaxRenderRows == 45     \* the logical page has at most this many data rows

effective_page_height == PageH - TMargin - BMargin
page_break_trigger == PageH - BMargin

\* pdf.multi_cell of n lines from (page, y): the page and y it ends at
RECURSIVE multi_cell(_, _, _)
multi_cell(n, page, y) ==
    IF n = 0 THEN [page |-> page, y |-> y]
    ELSE IF y + row_height > page_break_trigger
         THEN multi_cell(n - 1, page + 1, TMargin + row_height)
         ELSE multi_cell(n - 1, page, y + row_height)

\* lines 120-163: the cells of a row, left to right; each is drawn from start_y
RECURSIVE DrawCells(_, _, _, _)
DrawCells(cells, page, start_y, max_height) ==
    IF cells = <<>> THEN [page |-> page, max_height |-> max_height]
    ELSE LET at == multi_cell(Head(cells), page, start_y)
             cell_height == at.y - start_y
         IN  DrawCells(Tail(cells), at.page, start_y, Max(max_height, cell_height))

\* line 108: the test for a new page
NeedsPage(y) == y + row_height > effective_page_height

InitRender ==
    /\ current_y = TMargin + 2 * row_height     \* below the header block (line 101)
    /\ pdf_page = 1
    /\ row_n = 0
    /\ placed = <<>>
    /\ NoMain
    /\ NoFn

\* lines 107-166: one iteration of the row loop
RenderRow ==
    /\ row_n < MaxRenderRows
    /\ \E cells \in [1..RenderCols -> 1..MaxLines] :
          LET fresh == NeedsPage(current_y)
              start_y == IF fresh THEN TMargin ELSE current_y
              drawn == DrawCells(cells, IF fresh THEN pdf_page + 1 ELSE pdf_page,
                                 start_y, row_height)
              most == CHOOSE n \in Range(cells) : \A k \in Range(cells) : k <= n
          IN  /\ current_y' = start_y + drawn.max_height
              /\ pdf_page' = drawn.page
              /\ placed' = [fresh |-> fresh, start_y |-> start_y,
                            height |-> Max(row_height, most * row_height),
                            max_height |-> drawn.max_height]
    /\ row_n' = row_n + 1
    /\ UNCHANGED <<mainvars, fnvars>>

NextRender == RenderRow

SpecRender == InitRender /\ [][NextRender]_vars

\* C9: a data row is drawn on the current physical page only if
\* cursorY + rowHeight <= the printable page height, rowHeight being the row's
\* actual height (the tallest wrapped cell, at least the minimum row height);
\* otherwise a new page is started first, so no drawn row extends past the
\* printable height.
C9_RowFitsPrintableHeight ==
    placed # <<>> => placed.start_y + placed.height <= PageH - TMargin - BMargin

====
